---- MODULE Spec2Model ----
(***************************************************************************)
(* Model of crossmatch-alert-to-skymaps: the start and the polling loop of *)
(* crossmatch_alert_to_skymaps.py, the helpers of utils.py it calls        *)
(* (get_and_process_valid_obj, get_new_skymaps_for_processed_obj,          *)
(* is_obj_in_skymaps, get_skymaps) and, of api.py, the validation of       *)
(* SkyPortal.__init__ and fetch_all_pages.                                 *)
(*                                                                         *)
(* Time.  The unit is a tick of SecondsPerTick seconds.  A datetime is the  *)
(* number of ticks since the Unix epoch.  An mjd is kept in ticks since    *)
(* the MJD epoch (the float of the source times the ticks of a day), so    *)
(* Time(d).mjd is d plus the ticks of MJD_UNIX_EPOCH days.                 *)
(* ISO strings of datetimes are compared by the source as strings, which   *)
(* orders them as the datetimes themselves.                                *)
(*                                                                         *)
(* Photometry is a sequence in the order the API returns it, oldest point  *)
(* first; the source walks it with reversed() and never sorts it.          *)
(***************************************************************************)
EXTENDS Integers, Sequences, FiniteSets, TLC

VARIABLES
    pc,                 \* position of the program: startup, or inside an iteration
    now,                \* datetime.utcnow()
    boot,               \* what the backend answers while the program starts
    skymaps,            \* skymaps: event id -> <<dateobs, alias, moc>>
    latest_obj_refresh, \* latest_obj_refresh
    is_first_run,       \* is_first_run
    probe,              \* what skyportal.ping() has answered, until line 54 runs
    calls,              \* the steps this iteration has run so far
    gcn_events,         \* what skyportal.get_gcn_events returned, while lines 54-74 run
    new_gcn_events,     \* new_gcn_events of this iteration
    get_objects_payload,\* get_objects_payload of this iteration, <<>> before it is built
    refresh_time,       \* refresh_time of this iteration, None before it is read
    returned,           \* what skyportal.get_objects returned, with photometry
    objs,               \* objs: the result of get_and_process_valid_obj
    idx,                \* index of the for-loop over objs
    sent,               \* send_to_gcn calls of this iteration, in order
    raised,             \* the exception that ended this iteration, or "none"
    prev_returned,      \* `returned` of the previous iteration
    prev_sent,          \* `sent` of the previous iteration
    prev_skymaps,       \* `skymaps` at the end of the previous iteration
    prev_raised,        \* `raised` of the previous iteration
    prev_refresh_time,  \* `refresh_time` of the previous iteration
    last_payload,       \* get_objects_payload of the last query of the iterations before
    cycles,             \* iterations completed
    call,               \* arguments of a helper called on its own
    result,             \* what that call returned, or Pending
    pages               \* fetch_all_pages: its payload, its items and its fetches

vars == <<pc, now, boot, skymaps, latest_obj_refresh, is_first_run, probe, calls,
          gcn_events, new_gcn_events, get_objects_payload, refresh_time, returned,
          objs, idx, sent, raised, prev_returned, prev_sent, prev_skymaps,
          prev_raised, prev_refresh_time, last_payload, cycles, call, result,
          pages>>

loopVars == <<pc, now, boot, skymaps, latest_obj_refresh, is_first_run, probe, calls,
              gcn_events, new_gcn_events, get_objects_payload, refresh_time,
              returned, objs, idx, sent, raised, prev_returned, prev_sent,
              prev_skymaps, prev_raised, prev_refresh_time, last_payload, cycles>>

(***************************************************************************)
(* Program constants.                                                      *)
(***************************************************************************)
GCN == 48
ALERT == 12
FIRST_DETECTION == 48
SLEEP_TIME == 20
snr_threshold == 5
SecondsPerTick == 10
SecondsPerHour == 3600
SecondsPerDay == 86400
MJD_UNIX_EPOCH == 40587

(***************************************************************************)
(* Bounds of the model.                                                    *)
(***************************************************************************)
MaxPhot == 3        \* longest photometry list given to a helper on its own
MaxSkymaps == 2     \* longest region list given to a helper on its own
MaxCycles == 2      \* loop iterations explored
MaxQueryTicks == 1  \* longest run of one object query, in ticks
MaxItems == 2500    \* most items the backend holds for one list call
MaxFetches == 4     \* most requests one list call is let to make

\* Python's None for a missing snr; a falsy value like 0.
None == -1

Pending == "pending"

\* A number of seconds in ticks.
Ticks(seconds) == seconds \div SecondsPerTick

\* Time(date).mjd
Time_mjd(date) == date + MJD_UNIX_EPOCH * Ticks(SecondsPerDay)

\* The datetime at 00:00 of MJD day n, and that instant as an mjd.
DayStart(n) == (n - MJD_UNIX_EPOCH) * Ticks(SecondsPerDay)
Mjd(n) == n * Ticks(SecondsPerDay)

\* fallback(hours, seconds) and its "mjd" format, read at clock value t.
fallback(t, hours, seconds) == t - Ticks(hours * SecondsPerHour + seconds)
fallback_mjd(t, hours, seconds) == Time_mjd(fallback(t, hours, seconds))

Reverse(s) == [i \in 1..Len(s) |-> s[Len(s) + 1 - i]]

\* Sequences over S of length at most n whose mjd never decreases.
RECURSIVE SeqsUpTo(_, _)
SeqsUpTo(S, n) ==
    IF n = 0 THEN {<<>>}
    ELSE LET shorter == SeqsUpTo(S, n - 1)
         IN  shorter \cup {Append(s, x) : s \in shorter, x \in S}

Chronological(photometry) ==
    \A i \in 1..(Len(photometry) - 1) : photometry[i].mjd <= photometry[i + 1].mjd

(***************************************************************************)
(* get_and_process_valid_obj: the filter of one object's photometry.       *)
(***************************************************************************)
\* `if phot["snr"]`: None and 0 are falsy.
Truthy(snr) == snr # None /\ snr # 0

\* Mutant of IsOldDetection: the threshold is not tested.
IsOldDetection_noThreshold(phot, tau, F) == phot.mjd < F

\* Mutant of IsOldDetection: the lookback test with <= for <.
IsOldDetection_le(phot, tau, F) == phot.snr >= tau /\ phot.mjd <= F

\* The break condition, evaluated on a point whose snr is truthy.
IsOldDetection(phot, tau, F) == phot.snr >= tau /\ phot.mjd < F

\* A point of a malformed response: it has no "snr", so phot["snr"] raises
\* KeyError.
IsMalformed(phot) == "snr" \notin DOMAIN phot

\* The loop over reversed(photometry) from index i down to 1.  broke tells
\* whether the loop left through break, raised the exception that ended it.
RECURSIVE ScanPhotometry(_, _, _, _, _, _)
ScanPhotometry(photometry, i, last_non_detection, filtered_photometry, tau, F) ==
    IF i = 0
    THEN [broke |-> FALSE, raised |-> "none",
          last_non_detection |-> last_non_detection,
          filtered_photometry |-> filtered_photometry]
    ELSE LET phot == photometry[i] IN
         IF IsMalformed(phot)
         THEN [broke |-> FALSE, raised |-> "KeyError",
               last_non_detection |-> last_non_detection,
               filtered_photometry |-> filtered_photometry]
         ELSE
         IF Truthy(phot.snr)
         THEN IF IsOldDetection(phot, tau, F)
              THEN [broke |-> TRUE, raised |-> "none", last_non_detection |-> <<>>,
                    filtered_photometry |-> Append(filtered_photometry, phot)]
              ELSE ScanPhotometry(photometry, i - 1, <<>>,
                                  Append(filtered_photometry, phot), tau, F)
         ELSE IF last_non_detection = <<>>
              THEN ScanPhotometry(photometry, i - 1, <<phot>>,
                                  filtered_photometry, tau, F)
              ELSE ScanPhotometry(photometry, i - 1, last_non_detection,
                                  filtered_photometry, tau, F)

\* Mutant of KeepsObject: the object is appended when the loop breaks.
KeepsObject_onBreak(scan) == scan.broke

\* The for-else: the else branch, which appends the object to results, runs
\* when the loop was not left through break.
KeepsObject(scan) == ~scan.broke

\* Mutant of FilteredPhotometry: the detections stay in the order of the scan,
\* newest first.
FilteredPhotometry_notReversed(scan) ==
    scan.last_non_detection \o scan.filtered_photometry

\* "filtered_photometry": last_non_detection + list(reversed(filtered_photometry))
FilteredPhotometry(scan) ==
    scan.last_non_detection \o Reverse(scan.filtered_photometry)

\* The body of `for obj in objs` for one object: the list of results it adds.
ProcessObj(obj, tau, F) ==
    LET scan == ScanPhotometry(obj.photometry, Len(obj.photometry), <<>>, <<>>, tau, F)
    IN  IF KeepsObject(scan)
        THEN <<[id |-> obj.id, ra |-> obj.ra, dec |-> obj.dec,
                photometry |-> obj.photometry,
                filtered_photometry |-> FilteredPhotometry(scan)]>>
        ELSE <<>>

\* get_and_process_valid_obj over the objects the query returned.
RECURSIVE get_and_process_valid_obj(_, _, _)
get_and_process_valid_obj(objects, tau, F) ==
    IF objects = <<>> THEN <<>>
    ELSE ProcessObj(Head(objects), tau, F)
         \o get_and_process_valid_obj(Tail(objects), tau, F)

\* Mutant of ScanRaised: the exception of a malformed point is swallowed and
\* the loop over the objects goes on.
ScanRaised_swallowed(scan) == "none"

\* The exception the loop over one object's photometry ends with.  Nothing in
\* get_and_process_valid_obj catches it.
ScanRaised(scan) == scan.raised

\* The exception get_and_process_valid_obj ends with, "none" when it returns:
\* that of the first object whose photometry raises.
RECURSIVE RaisedByFilter(_, _, _)
RaisedByFilter(objects, tau, F) ==
    IF objects = <<>> THEN "none"
    ELSE LET obj == Head(objects)
             scan == ScanPhotometry(obj.photometry, Len(obj.photometry),
                                    <<>>, <<>>, tau, F)
         IN  IF ScanRaised(scan) # "none" THEN ScanRaised(scan)
             ELSE RaisedByFilter(Tail(objects), tau, F)

(***************************************************************************)
(* get_new_skymaps_for_processed_obj.  A region is <<dateobs, alias, moc>>. *)
(***************************************************************************)
\* obj.get("filtered_photometry", [])[:-1]
AllButLast(s) == SubSeq(s, 1, Len(s) - 1)

\* Mutant of ReturnsAllSkymaps: the first-run test is left out.
ReturnsAllSkymaps_noFirstRun(photometry, first_run) == Len(photometry) < 1

\* `if len(photometry) < 1 or is_first_run`
ReturnsAllSkymaps(photometry, first_run) == Len(photometry) < 1 \/ first_run

\* Mutant of LastProcessedAlert: the list is walked oldest point first.
LastProcessedAlert_oldestFirst(photometry, i, last_processed_mjd) ==
    LET older == {j \in 1..i : photometry[j].mjd < last_processed_mjd}
    IN  IF older = {} THEN <<>>
        ELSE <<photometry[CHOOSE j \in older : \A k \in older : j <= k].mjd>>

\* The loop over reversed(photometry) from index i down to 1: <<mjd>> of the
\* point it breaks on, <<>> when it runs into its else branch.
RECURSIVE LastProcessedAlert(_, _, _)
LastProcessedAlert(photometry, i, last_processed_mjd) ==
    IF i = 0 THEN <<>>
    ELSE IF photometry[i].mjd < last_processed_mjd
         THEN <<photometry[i].mjd>>
         ELSE LastProcessedAlert(photometry, i - 1, last_processed_mjd)

\* Mutant of IsNewSkymap: strictly newer than the boundary.
IsNewSkymap_strict(dateobs, last_processed_alert_mjd) ==
    Time_mjd(dateobs) > last_processed_alert_mjd

\* `Time(dateobs).mjd >= last_processed_alert_mjd`
IsNewSkymap(dateobs, last_processed_alert_mjd) ==
    Time_mjd(dateobs) >= last_processed_alert_mjd

get_new_skymaps_for_processed_obj(obj, skymaps_tuples, last_processed_mjd, first_run) ==
    LET photometry == AllButLast(obj.filtered_photometry) IN
    IF ReturnsAllSkymaps(photometry, first_run)
    THEN skymaps_tuples
    ELSE LET found == LastProcessedAlert(photometry, Len(photometry), last_processed_mjd)
         IN  IF found = <<>>
             THEN skymaps_tuples
             ELSE SelectSeq(skymaps_tuples, LAMBDA s : IsNewSkymap(s[1], found[1]))

(***************************************************************************)
(* is_obj_in_skymaps.  A moc is the set of sky positions <<ra, dec>> it    *)
(* contains, so moc.contains_lonlat(ra, dec) is membership.                *)
(***************************************************************************)
is_obj_in_skymaps(ra, dec, skymaps_tuples) ==
    SelectSeq(skymaps_tuples, LAMBDA s : <<ra, dec>> \in s[3])

(***************************************************************************)
(* The loop's variables while a helper is called on its own.               *)
(***************************************************************************)
EmptyMap == [e \in {} |-> <<>>]

\* The backend answers the program's start: ping() and auth() return True,
\* get_instruments() returns one instrument.
BootOk == [ping |-> "true", auth |-> "true", instruments |-> "1"]

LoopIdle ==
    /\ pc = "idle"
    /\ now = 0
    /\ boot = BootOk
    /\ skymaps = EmptyMap
    /\ latest_obj_refresh = 0
    /\ is_first_run = TRUE
    /\ probe = Pending
    /\ calls = {}
    /\ gcn_events = <<>>
    /\ new_gcn_events = <<>>
    /\ get_objects_payload = <<>>
    /\ refresh_time = None
    /\ returned = <<>>
    /\ objs = <<>>
    /\ idx = 0
    /\ sent = <<>>
    /\ raised = "none"
    /\ prev_returned = <<>>
    /\ prev_sent = <<>>
    /\ prev_skymaps = EmptyMap
    /\ prev_raised = "none"
    /\ prev_refresh_time = None
    /\ last_payload = <<>>
    /\ cycles = 0

\* fetch_all_pages is not running.
PagesIdle == pages = <<>>

(***************************************************************************)
(* SpecFilter: get_and_process_valid_obj called on one object, for every   *)
(* photometry list of at most MaxPhot points in chronological order.       *)
(***************************************************************************)
FilterSnrs == {None, 0, 3, 5, 8}
FilterMjds == 1..3
FilterPoints == [mjd : FilterMjds, snr : FilterSnrs]
FilterPhotometries == {s \in SeqsUpTo(FilterPoints, MaxPhot) : Chronological(s)}

FilterInit ==
    /\ LoopIdle
    /\ PagesIdle
    /\ call \in [photometry : FilterPhotometries,
                 snr_threshold : {snr_threshold, 8},
                 first_detection_fallback : 2..3]
    /\ result = Pending

CallFilter ==
    /\ result = Pending
    /\ result' = get_and_process_valid_obj(
                    <<[id |-> "O", ra |-> 10, dec |-> 20, photometry |-> call.photometry]>>,
                    call.snr_threshold, call.first_detection_fallback)
    /\ UNCHANGED <<call, pages, loopVars>>

FilterNext == CallFilter

SpecFilter == FilterInit /\ [][FilterNext]_vars

FilterDone == result # Pending
FilterAccepted == FilterDone /\ Len(result) = 1
FilterRejected == FilterDone /\ Len(result) = 0

\* Some point of the photometry is a detection at the threshold older than
\* the lookback floor.
HasOldDetection ==
    \E i \in 1..Len(call.photometry) :
        /\ call.photometry[i].snr >= call.snr_threshold
        /\ call.photometry[i].mjd < call.first_detection_fallback

NoPointReachesThreshold ==
    \A i \in 1..Len(call.photometry) :
        call.photometry[i].snr < call.snr_threshold

\* C2 as stated: the object is returned exactly when the traversal reaches a
\* detection (snr >= tau) with mjd < F.  Stated for the objects that have
\* photometry; C3 is about the empty list.
C2_AcceptsIffOldDetection ==
    (FilterDone /\ call.photometry # <<>>) => (FilterAccepted <=> HasOldDetection)

\* C2 as amended: the object is rejected exactly when the traversal reaches a
\* detection (snr >= tau) with mjd < F, and returned when the traversal
\* exhausts without reaching one.
C2_RejectsIffOldDetection ==
    FilterDone => /\ FilterRejected <=> HasOldDetection
                  /\ FilterAccepted <=> ~HasOldDetection

C2_Witness ==
    /\ FilterRejected
    /\ Len(call.photometry) = 3
    /\ call.photometry[1].snr >= call.snr_threshold
    /\ call.photometry[1].mjd < call.first_detection_fallback
    /\ call.photometry[3].snr >= call.snr_threshold
    /\ call.photometry[3].mjd > call.first_detection_fallback

\* C3: every object returned by the filter carries a filtered_photometry of
\* at least one point; an object with an empty photometry is not returned.
C3_FilteredPhotometryNonEmpty ==
    FilterDone =>
        /\ \A i \in 1..Len(result) : Len(result[i].filtered_photometry) >= 1
        /\ (call.photometry = <<>> => FilterRejected)

\* C4 as stated: an object none of whose points has snr >= tau is rejected.
\* Stated for the objects that have photometry; C3 is about the empty list.
C4_RejectsBelowThreshold ==
    (FilterDone /\ call.photometry # <<>> /\ NoPointReachesThreshold) => FilterRejected

\* C4 as amended: an object none of whose points has snr >= tau is returned,
\* whether its points have a non-null snr below tau or are non-detections.
C4_AcceptsBelowThreshold ==
    (FilterDone /\ NoPointReachesThreshold) => FilterAccepted

C4_Witness ==
    /\ FilterAccepted
    /\ NoPointReachesThreshold
    /\ \E i, j \in 1..Len(call.photometry) :
          /\ Truthy(call.photometry[i].snr)
          /\ call.photometry[i].mjd < call.first_detection_fallback
          /\ call.photometry[j].snr = None

HasDetectionAtFloor ==
    \E i \in 1..Len(call.photometry) :
        /\ call.photometry[i].snr >= call.snr_threshold
        /\ call.photometry[i].mjd = call.first_detection_fallback

\* C5 as stated: an object with a detection (snr >= tau) at mjd = F is
\* accepted.
C5_AcceptsDetectionAtFloor ==
    (FilterDone /\ HasDetectionAtFloor) => FilterAccepted

\* C5 as amended: an object with a detection (snr >= tau) at mjd = F and no
\* detection (snr >= tau) at an mjd < F is accepted: the test mjd < F that
\* rejects is strict.
C5_AcceptsOldestDetectionAtFloor ==
    (FilterDone /\ HasDetectionAtFloor /\ ~HasOldDetection) => FilterAccepted

C5_Witness ==
    /\ FilterAccepted
    /\ HasDetectionAtFloor
    /\ \E i \in 1..Len(call.photometry) :
          /\ call.photometry[i].mjd < call.first_detection_fallback
          /\ Truthy(call.photometry[i].snr)

(***************************************************************************)
(* SpecDedup: get_new_skymaps_for_processed_obj called on its own, for     *)
(* every filtered_photometry of at most MaxPhot points, every region list  *)
(* of at most MaxSkymaps regions, every cursor and both values of the      *)
(* first-run flag.  The instants are those of the first seconds of MJD day *)
(* 100.                                                                    *)
(***************************************************************************)
DedupPoints == [mjd : {Mjd(100) + k : k \in 0..3}, snr : {8}]
DedupPhotometries == {s \in SeqsUpTo(DedupPoints, MaxPhot) : Chronological(s)}
DedupRegions == {<<DayStart(100) + k, "S", {<<10, 20>>}>> : k \in 0..2}
DedupCursors == {Mjd(100) + k : k \in 0..3}

DedupInit ==
    /\ LoopIdle
    /\ PagesIdle
    /\ call \in [filtered_photometry : DedupPhotometries,
                 skymaps : SeqsUpTo(DedupRegions, MaxSkymaps),
                 last_processed_mjd : DedupCursors,
                 is_first_run : BOOLEAN]
    /\ result = Pending

CallDedup ==
    /\ result = Pending
    /\ result' = get_new_skymaps_for_processed_obj(
                    [filtered_photometry |-> call.filtered_photometry],
                    call.skymaps, call.last_processed_mjd, call.is_first_run)
    /\ UNCHANGED <<call, pages, loopVars>>

DedupNext == CallDedup

SpecDedup == DedupInit /\ [][DedupNext]_vars

DedupDone == result # Pending

\* The filtered_photometry without its most recent point, the indices of its
\* points older than the cursor, and the mjd of the newest of those.
DedupRest == AllButLast(call.filtered_photometry)
DedupOlder == {i \in 1..Len(DedupRest) : DedupRest[i].mjd < call.last_processed_mjd}
DedupBoundary ==
    DedupRest[CHOOSE i \in DedupOlder : \A j \in DedupOlder : j <= i].mjd

\* C6: on the first run the full region list is returned, whatever the
\* photometry, the regions and the cursor.
C6_FirstRunReturnsAll ==
    (DedupDone /\ call.is_first_run) => result = call.skymaps

C6_Witness ==
    /\ DedupDone
    /\ call.is_first_run
    /\ DedupOlder # {}
    /\ \E i \in 1..Len(call.skymaps) : Time_mjd(call.skymaps[i][1]) < DedupBoundary
    /\ result = call.skymaps

C8_NewRegionsNotOlderThanCursor ==
    (DedupDone /\ ~call.is_first_run /\ DedupOlder # {}) =>
        \A i \in 1..Len(result) : Time_mjd(result[i][1]) >= call.last_processed_mjd

\* C8 as amended: for such an object every region returned as new has a
\* dateobs at least as recent as the boundary, the mjd of the newest
\* remaining point older than the cursor; the boundary is older than the
\* cursor.
C8_NewRegionsNotOlderThanBoundary ==
    (DedupDone /\ ~call.is_first_run /\ DedupOlder # {}) =>
        /\ DedupBoundary < call.last_processed_mjd
        /\ \A i \in 1..Len(result) : Time_mjd(result[i][1]) >= DedupBoundary

C8_Witness ==
    /\ DedupDone
    /\ ~call.is_first_run
    /\ DedupOlder # {}
    /\ Len(result) >= 1
    /\ Len(result) < Len(call.skymaps)
    /\ \E i \in 1..Len(result) : Time_mjd(result[i][1]) < call.last_processed_mjd

(***************************************************************************)
(* SkyPortal.fetch_all_pages.  The backend holds totalMatches items,       *)
(* numbered from 1 in the order it lists them; a page is the list of the   *)
(* runs [first, last] of item numbers it carries, so that lists of         *)
(* thousands of items stay small.  SpecPages runs the method for every     *)
(* total up to MaxItems.                                                   *)
(***************************************************************************)
\* payload["numPerPage"]
numPerPage == 1000

Min(a, b) == IF a <= b THEN a ELSE b

\* results[item_key] of the request for page pageNumber at size perPage.
PageOf(totalMatches, pageNumber, perPage) ==
    IF (pageNumber - 1) * perPage < totalMatches
    THEN <<[first |-> (pageNumber - 1) * perPage + 1,
            last |-> Min(pageNumber * perPage, totalMatches)]>>
    ELSE <<>>

\* len(items)
RECURSIVE ItemCount(_)
ItemCount(items) ==
    IF items = <<>> THEN 0
    ELSE Head(items).last - Head(items).first + 1 + ItemCount(Tail(items))

\* Mutant of IsLastPage: the test of line 165 with < for <=.
IsLastPage_strict(totalMatches, items) == totalMatches < ItemCount(items)

\* Line 165: results["totalMatches"] <= len(items)
IsLastPage(totalMatches, items) == totalMatches <= ItemCount(items)

\* Lines 159-161.
PagesInit ==
    /\ LoopIdle
    /\ call \in [totalMatches : 0..MaxItems]
    /\ pages = [pageNumber |-> 1, numPerPage |-> numPerPage, items |-> <<>>,
                requested |-> <<>>]
    /\ result = Pending

\* Lines 163-164: the request for the current page and items += its items.
ItemsAfterFetch ==
    pages.items \o PageOf(call.totalMatches, pages.pageNumber, pages.numPerPage)

\* One turn of the loop of line 162 that goes on to the next page.
FetchPage ==
    /\ result = Pending
    /\ Len(pages.requested) < MaxFetches
    /\ ~IsLastPage(call.totalMatches, ItemsAfterFetch)
    /\ pages' = [pages EXCEPT !.items = ItemsAfterFetch,
                              !.requested = Append(@, pages.pageNumber),
                              !.pageNumber = @ + 1]
    /\ UNCHANGED <<call, result, loopVars>>

\* The turn that breaks at line 166 and returns items.
FetchLastPage ==
    /\ result = Pending
    /\ Len(pages.requested) < MaxFetches
    /\ IsLastPage(call.totalMatches, ItemsAfterFetch)
    /\ pages' = [pages EXCEPT !.items = ItemsAfterFetch,
                              !.requested = Append(@, pages.pageNumber)]
    /\ result' = ItemsAfterFetch
    /\ UNCHANGED <<call, loopVars>>

PagesNext == FetchPage \/ FetchLastPage

SpecPages == PagesInit /\ [][PagesNext]_vars

\* ceil(N / P) fetches, one when N = 0.
ExpectedFetches(N, P) == IF N = 0 THEN 1 ELSE (N + P - 1) \div P

\* The item numbers of a list of runs are 1..n, each once and in order.
RECURSIVE CoversFrom(_, _, _)
CoversFrom(items, next, n) ==
    IF items = <<>> THEN next = n + 1
    ELSE /\ Head(items).first = next
         /\ Head(items).last >= next
         /\ CoversFrom(Tail(items), Head(items).last + 1, n)

\* C14: the pages are requested in the order 1, 2, 3, ... at the page size
\* of 1000; the method never makes more than ceil(N / 1000) requests (one
\* for N = 0), goes on as long as fewer than N items are accumulated, and
\* returns after exactly that many requests with the N items.
C14_PagesUntilTotal ==
    LET N == call.totalMatches
        fetches == Len(pages.requested)
    IN  /\ pages.numPerPage = 1000
        /\ \A i \in 1..fetches : pages.requested[i] = i
        /\ fetches <= ExpectedFetches(N, 1000)
        /\ result = Pending => (fetches = 0 \/ ItemCount(pages.items) < N)
        /\ result # Pending =>
              /\ fetches = ExpectedFetches(N, 1000)
              /\ ItemCount(result) = N
              /\ CoversFrom(result, 1, N)
              /\ ItemCount(SubSeq(result, 1, fetches - 1)) < N \/ N = 0

\* 2500 items at page size 1000: 3 fetches, 2500 items.
C14_Witness ==
    /\ call.totalMatches = 2500
    /\ result # Pending
    /\ pages.requested = <<1, 2, 3>>
    /\ ItemCount(result) = 2500

(***************************************************************************)
(* The polling loop of crossmatch_alert_to_skymaps.                        *)
(*                                                                         *)
(* An event is [id, localizations], its localizations most recent first,   *)
(* each [dateobs, tagged]: tagged tells whether the localization carries   *)
(* the tag "< 1000 sq. deg.".                                              *)
(***************************************************************************)
EventIds == {"A", "B"}
EventOrder == <<"A", "B">>

\* The alias and the moc stored for an event.
AliasOf(id) == id
MocOf(id) == IF id = "A" THEN {<<10, 20>>} ELSE {<<30, 40>>}

\* next((loc for loc in localizations if tagged), None), as a list of at most
\* one localization.
RECURSIVE TaggedLocalization(_)
TaggedLocalization(localizations) ==
    IF localizations = <<>> THEN <<>>
    ELSE IF Head(localizations).tagged THEN <<Head(localizations)>>
         ELSE TaggedLocalization(Tail(localizations))

\* Mutant of IsNewerLocalization: an equal dateobs replaces too.
IsNewerLocalization_orEqual(dateobs, cached) == dateobs >= cached

\* `event["localization"]["dateobs"] > skymaps[event["id"]][0]`
IsNewerLocalization(dateobs, cached) == dateobs > cached

\* Lines 54-65 for one event: whether it is appended to new_gcn_events.
IsNewGcnEvent(event, cache) ==
    LET localization == TaggedLocalization(event.localizations) IN
    /\ localization # <<>>
    /\ \/ event.id \notin DOMAIN cache
       \/ IsNewerLocalization(localization[1].dateobs, cache[event.id][1])

\* new_gcn_events after the loop of lines 54-65.
SelectNewGcnEvents(events, cache) ==
    SelectSeq(events, LAMBDA event : IsNewGcnEvent(event, cache))

\* utils.get_skymaps: a list of (dateobs, alias, moc), one per event that has
\* localizations, made from the event's first localization.
RECURSIVE get_skymaps(_)
get_skymaps(events) ==
    IF events = <<>> THEN <<>>
    ELSE (IF Head(events).localizations = <<>> THEN <<>>
          ELSE <<<<Head(events).localizations[1].dateobs,
                   AliasOf(Head(events).id), MocOf(Head(events).id)>>>>)
         \o get_skymaps(Tail(events))

\* Lines 72-73 read new_skymaps.items(); get_skymaps returns a list, which has
\* no items(), so the loop over it raises before any assignment to skymaps.
ItemsOfList(new_skymaps) == "AttributeError"

\* Mutant of Expired: an entry dated at the floor is expired too.
Expired_orEqual(cache, t) == {id \in DOMAIN cache : cache[id][1] <= fallback(t, GCN, 0)}

\* Lines 77-78: the ids whose dateobs is older than fallback(GCN).
Expired(cache, t) == {id \in DOMAIN cache : cache[id][1] < fallback(t, GCN, 0)}

\* Mutant of Evicted: the expired ids are listed and logged, none is deleted.
Evicted_keepsAll(cache, t) == cache

\* Lines 79-81.
Evicted(cache, t) == [id \in (DOMAIN cache) \ Expired(cache, t) |-> cache[id]]

\* list(skymaps.values())
RECURSIVE ValuesInOrder(_, _)
ValuesInOrder(cache, order) ==
    IF order = <<>> THEN <<>>
    ELSE (IF Head(order) \in DOMAIN cache THEN <<cache[Head(order)]>> ELSE <<>>)
         \o ValuesInOrder(cache, Tail(order))

Values(cache) == ValuesInOrder(cache, EventOrder)

\* Mutant of StartDate: the cursor alone.
StartDate_cursorOnly(refresh, t) == refresh

\* max(latest_obj_refresh, fallback(ALERT)), the startDate of the query.
StartDate(refresh, t) ==
    IF refresh >= fallback(t, ALERT, 0) THEN refresh ELSE fallback(t, ALERT, 0)

\* Lines 105-112 for one object: the regions the notification would list.
MatchingSkymaps(obj, cache, t, first_run) ==
    is_obj_in_skymaps(obj.ra, obj.dec,
        get_new_skymaps_for_processed_obj(obj, Values(cache),
            fallback_mjd(t, 0, SLEEP_TIME), first_run))

(***************************************************************************)
(* What the AlertSource may answer in the model.                           *)
(***************************************************************************)
Localizations == [dateobs : {DayStart(99), DayStart(100)}, tagged : BOOLEAN]

MostRecentFirst(localizations) ==
    \A i \in 1..(Len(localizations) - 1) :
        localizations[i].dateobs >= localizations[i + 1].dateobs

\* Event A comes with any list of at most two localizations, event B with one
\* tagged localization.
EventsOfA ==
    {<<>>} \cup {<<[id |-> "A", localizations |-> l]>> :
                   l \in {x \in SeqsUpTo(Localizations, 2) : MostRecentFirst(x)}}
EventsOfB ==
    {<<>>, <<[id |-> "B",
              localizations |-> <<[dateobs |-> DayStart(100), tagged |-> TRUE]>>]>>}
EventBatches == {a \o b : a \in EventsOfA, b \in EventsOfB}

\* Object O is the instance of the specification: detections at mjd 100
\* (snr 8) and 101 (snr 9), at (10, 20); it may come with one more point.
\* P has a detection older than the lookback floor, Q a single detection.
ObjectsO ==
    {<<>>,
     <<[id |-> "O", ra |-> 10, dec |-> 20,
        photometry |-> <<[mjd |-> Mjd(100), snr |-> 8], [mjd |-> Mjd(101), snr |-> 9]>>]>>,
     <<[id |-> "O", ra |-> 10, dec |-> 20,
        photometry |-> <<[mjd |-> Mjd(100), snr |-> 8], [mjd |-> Mjd(101), snr |-> 9],
                         [mjd |-> Mjd(101) + 1, snr |-> 9]>>]>>}
ObjectsP ==
    {<<>>,
     <<[id |-> "P", ra |-> 10, dec |-> 20,
        photometry |-> <<[mjd |-> Mjd(98), snr |-> 8], [mjd |-> Mjd(101), snr |-> 6]>>]>>}
ObjectsQ ==
    {<<>>,
     <<[id |-> "Q", ra |-> 30, dec |-> 40,
        photometry |-> <<[mjd |-> Mjd(101), snr |-> 7]>>]>>}
\* M comes with a malformed photometry response: its only point has no snr.
ObjectsM ==
    {<<>>,
     <<[id |-> "M", ra |-> 30, dec |-> 40,
        photometry |-> <<[mjd |-> Mjd(101)]>>]>>}
ObjectBatches ==
    {p \o m \o o \o q : p \in ObjectsP, m \in ObjectsM, o \in ObjectsO, q \in ObjectsQ}

\* The caches the loop may hold at the top of an iteration.
Caches ==
    UNION {[ids -> {DayStart(99), DayStart(100)}] : ids \in SUBSET EventIds}
CacheOf(dates) == [id \in DOMAIN dates |-> <<dates[id], AliasOf(id), MocOf(id)>>]

(***************************************************************************)
(* The state after construction (lines 35-45), the clock at MJD 101.       *)
(***************************************************************************)
HelperIdle == call = <<>> /\ result = Pending /\ PagesIdle

\* The exceptions of the model; each is a subclass of Exception.
Exceptions ==
    {"APIError", "AttributeError", "ConnectionError", "KeyError", "TypeError",
     "ValueError"}

\* Mutant of Handled: only `except APIError` is there.
Handled_onlyAPIError(exc) == exc = "APIError"

\* Lines 133-137: `except APIError` and `except Exception` around the body of
\* the loop.
Handled(exc) == exc = "APIError" \/ exc \in Exceptions

\* Where the program goes when exc is raised inside the try of line 48: to
\* lines 139-140 when a handler takes it, out of the process when none does.
AfterRaise(exc) == IF Handled(exc) THEN "sleep" ELSE "exit"

\* No step of an iteration has run.
IterationStart ==
    /\ probe = Pending
    /\ calls = {}
    /\ gcn_events = <<>>
    /\ new_gcn_events = <<>>
    /\ get_objects_payload = <<>>
    /\ refresh_time = None
    /\ returned = <<>>
    /\ objs = <<>>
    /\ idx = 0
    /\ sent = <<>>
    /\ raised = "none"

NoHistory ==
    /\ prev_returned = <<>>
    /\ prev_sent = <<>>
    /\ prev_raised = "none"
    /\ prev_refresh_time = None
    /\ last_payload = <<>>
    /\ cycles = 0

Init ==
    /\ pc = "ping"
    /\ now = DayStart(101)
    /\ boot = BootOk
    /\ skymaps = EmptyMap
    /\ latest_obj_refresh = fallback(DayStart(101), ALERT, 0)
    /\ is_first_run = TRUE
    /\ IterationStart
    /\ NoHistory
    /\ prev_skymaps = EmptyMap
    /\ HelperIdle

\* The top of any iteration.  Lines 71-73 raise before they store a region
\* (ItemsOfList), so from Init the cache stays empty and lines 76-131 never
\* meet a region.  To check what those lines do with a cache, the loop body
\* is run from every cache of Caches, either value of the first-run flag and
\* a refresh time of the start or of the iteration before.
LoopInit ==
    /\ pc = "ping"
    /\ now = DayStart(101)
    /\ boot = BootOk
    /\ \E dates \in Caches : skymaps = CacheOf(dates) /\ prev_skymaps = CacheOf(dates)
    /\ latest_obj_refresh \in {fallback(DayStart(101), ALERT, 0),
                               fallback(DayStart(101), 0, SLEEP_TIME)}
    /\ is_first_run \in BOOLEAN
    /\ IterationStart
    /\ NoHistory
    /\ HelperIdle

helperVars == <<call, result, pages>>

historyVars == <<prev_returned, prev_sent, prev_skymaps, prev_raised,
                 prev_refresh_time, last_payload, cycles>>

\* Line 50, the probe answers True or False: its value is not read, and
\* not bound to any name, so the statement after it leaves "answered".
PingReturns ==
    /\ pc = "ping"
    /\ cycles < MaxCycles
    /\ probe' \in {"true", "false"}
    /\ pc' = "upsert"
    /\ UNCHANGED <<now, boot, skymaps, latest_obj_refresh, is_first_run, calls,
                   gcn_events, new_gcn_events, get_objects_payload, refresh_time,
                   returned, objs, idx, sent, raised, historyVars, helperVars>>

\* Line 50, the probe times out: handle_timeout raises APIError.
PingTimesOut ==
    /\ pc = "ping"
    /\ cycles < MaxCycles
    /\ probe' = "timeout"
    /\ raised' = "APIError"
    /\ pc' = AfterRaise("APIError")
    /\ UNCHANGED <<now, boot, skymaps, latest_obj_refresh, is_first_run, calls,
                   gcn_events, new_gcn_events, get_objects_payload, refresh_time,
                   returned, objs, idx, sent, historyVars, helperVars>>

\* Line 54, get_gcn_events raises APIError.
FetchFails ==
    /\ pc = "upsert"
    /\ calls' = calls \cup {"get_gcn_events"}
    /\ probe' = "answered"
    /\ raised' = "APIError"
    /\ pc' = AfterRaise("APIError")
    /\ UNCHANGED <<now, boot, skymaps, latest_obj_refresh, is_first_run,
                   gcn_events, new_gcn_events, get_objects_payload, refresh_time,
                   returned, objs, idx, sent, historyVars, helperVars>>

\* Lines 53-74 when some event is new: get_skymaps is called and the loop
\* over its result raises.
UpsertRaises ==
    /\ pc = "upsert"
    /\ \E events \in EventBatches :
          /\ SelectNewGcnEvents(events, skymaps) # <<>>
          /\ gcn_events' = events
          /\ new_gcn_events' = SelectNewGcnEvents(events, skymaps)
          /\ raised' = ItemsOfList(get_skymaps(events))
          /\ pc' = AfterRaise(ItemsOfList(get_skymaps(events)))
    /\ calls' = calls \cup {"get_gcn_events", "get_skymaps"}
    /\ probe' = "answered"
    /\ UNCHANGED <<now, boot, skymaps, latest_obj_refresh, is_first_run,
                   get_objects_payload, refresh_time, returned, objs, idx, sent,
                   historyVars, helperVars>>

\* Lines 53-67 when no event is new.
UpsertNothingNew ==
    /\ pc = "upsert"
    /\ \E events \in EventBatches :
          /\ SelectNewGcnEvents(events, skymaps) = <<>>
          /\ gcn_events' = events
          /\ new_gcn_events' = <<>>
    /\ calls' = calls \cup {"get_gcn_events"}
    /\ probe' = "answered"
    /\ pc' = "evict"
    /\ UNCHANGED <<now, boot, skymaps, latest_obj_refresh, is_first_run,
                   get_objects_payload, refresh_time, returned, objs, idx, sent,
                   raised, historyVars, helperVars>>

\* Mutant of RunsEvict: the branch is taken when there are new events.
RunsEvict_whenNew(new_events, cache) == new_events # <<>> /\ DOMAIN cache # {}

\* Lines 67 and 76: `if new_gcn_events: ... elif skymaps:`.
RunsEvict(new_events, cache) == new_events = <<>> /\ DOMAIN cache # {}

\* Lines 76-81.  The list line 54 iterates over has no name: it is gone once
\* that loop is over.
Evict ==
    /\ pc = "evict"
    /\ IF RunsEvict(new_gcn_events, skymaps)
       THEN /\ skymaps' = Evicted(skymaps, now)
            /\ calls' = calls \cup {"evict"}
       ELSE UNCHANGED <<skymaps, calls>>
    /\ gcn_events' = <<>>
    /\ pc' = "query"
    /\ UNCHANGED <<now, boot, latest_obj_refresh, is_first_run, probe,
                   new_gcn_events, get_objects_payload, refresh_time, returned,
                   objs, idx, sent, raised, historyVars, helperVars>>

\* Lines 84 and 126-131: no skymaps, no query.
QuerySkipped ==
    /\ pc = "query"
    /\ DOMAIN skymaps = {}
    /\ pc' = "sleep"
    /\ UNCHANGED <<now, boot, skymaps, latest_obj_refresh, is_first_run, probe,
                   calls, gcn_events, new_gcn_events, get_objects_payload,
                   refresh_time, returned, objs, idx, sent, raised, historyVars,
                   helperVars>>

\* The ticks the clock may advance while get_and_process_valid_obj runs.
QueryTicks == 0..MaxQueryTicks

\* Lines 85-93 up to the call of get_and_process_valid_obj, which takes d
\* ticks: the payload is built and the clock read before the call.
BeginQuery(d) ==
    /\ pc = "query"
    /\ DOMAIN skymaps # {}
    /\ get_objects_payload' = [startDate |-> StartDate(latest_obj_refresh, now)]
    /\ refresh_time' = now
    /\ calls' = calls \cup {"get_objects"}
    /\ now' = now + d

\* Mutant of RefreshTime: the cursor is set as line 37 sets it, ALERT hours
\* before the query.
RefreshTime_lookback(before, after) == fallback(before, ALERT, 0)

\* Mutant of RefreshTime: the clock is read after the query.
RefreshTime_afterQuery(before, after) == after

\* Lines 91 and 99: refresh_time is read before the query, at `before`, and
\* stored once the query has returned, at `after`.
RefreshTime(before, after) == before

\* Lines 85-98, get_objects or get_object_photometry raises APIError.
QueryFails ==
    /\ \E d \in QueryTicks : BeginQuery(d)
    /\ raised' = "APIError"
    /\ pc' = AfterRaise("APIError")
    /\ UNCHANGED <<boot, skymaps, latest_obj_refresh, is_first_run, probe,
                   gcn_events, new_gcn_events, returned, objs, idx, sent,
                   historyVars, helperVars>>

\* Lines 85-98, a photometry response is malformed: the exception leaves
\* get_and_process_valid_obj and line 99 is not reached.
QueryMalformed ==
    /\ \E d \in QueryTicks : BeginQuery(d)
    /\ \E objects \in ObjectBatches :
          LET exc == RaisedByFilter(objects, snr_threshold,
                                    fallback_mjd(now, FIRST_DETECTION, 0))
          IN  /\ exc # "none"
              /\ returned' = objects
              /\ raised' = exc
              /\ pc' = AfterRaise(exc)
    /\ UNCHANGED <<boot, skymaps, latest_obj_refresh, is_first_run, probe,
                   gcn_events, new_gcn_events, objs, idx, sent,
                   historyVars, helperVars>>

\* Lines 85-99.
Query ==
    /\ \E d \in QueryTicks :
          /\ BeginQuery(d)
          /\ latest_obj_refresh' = RefreshTime(now, now + d)
    /\ \E objects \in ObjectBatches :
          /\ RaisedByFilter(objects, snr_threshold,
                            fallback_mjd(now, FIRST_DETECTION, 0)) = "none"
          /\ returned' = objects
          /\ objs' = get_and_process_valid_obj(objects, snr_threshold,
                          fallback_mjd(now, FIRST_DETECTION, 0))
    /\ idx' = 1
    /\ pc' = "crossmatch"
    /\ UNCHANGED <<boot, skymaps, is_first_run, probe, gcn_events, new_gcn_events,
                   sent, raised, historyVars, helperVars>>

\* Lines 104-113 for an object no new region contains.
CrossmatchNoMatch ==
    /\ pc = "crossmatch"
    /\ idx <= Len(objs)
    /\ MatchingSkymaps(objs[idx], skymaps, now, is_first_run) = <<>>
    /\ idx' = idx + 1
    /\ UNCHANGED <<pc, now, boot, skymaps, latest_obj_refresh, is_first_run, probe,
                   calls, gcn_events, new_gcn_events, get_objects_payload,
                   refresh_time, returned, objs, sent, raised, historyVars,
                   helperVars>>

\* Lines 104-115 for an object some new region contains: send_to_gcn is
\* called.  It passes three arguments to send_to_slack, which takes two, so
\* the call raises TypeError and ends the iteration.
CrossmatchNotify ==
    /\ pc = "crossmatch"
    /\ idx <= Len(objs)
    /\ MatchingSkymaps(objs[idx], skymaps, now, is_first_run) # <<>>
    /\ sent' = Append(sent, [id |-> objs[idx].id,
                             matching_skymaps |->
                                MatchingSkymaps(objs[idx], skymaps, now, is_first_run)])
    /\ calls' = calls \cup {"send_to_gcn"}
    /\ raised' = "TypeError"
    /\ pc' = AfterRaise("TypeError")
    /\ UNCHANGED <<now, boot, skymaps, latest_obj_refresh, is_first_run, probe,
                   gcn_events, new_gcn_events, get_objects_payload, refresh_time,
                   returned, objs, idx, historyVars, helperVars>>

\* The for-loop of line 104 is over.
CrossmatchDone ==
    /\ pc = "crossmatch"
    /\ idx > Len(objs)
    /\ pc' = "sleep"
    /\ UNCHANGED <<now, boot, skymaps, latest_obj_refresh, is_first_run, probe,
                   calls, gcn_events, new_gcn_events, get_objects_payload,
                   refresh_time, returned, objs, idx, sent, raised, historyVars,
                   helperVars>>

\* Mutant of FirstRunAfter: the flag is cleared inside the try, so only by an
\* iteration that raised nothing.
FirstRunAfter_insideTry(first_run, exc) == IF exc = "none" THEN FALSE ELSE first_run

\* Line 139, after the try and its handlers: `if is_first_run: is_first_run =
\* False`, whatever the iteration raised.
FirstRunAfter(first_run, exc) == FALSE

\* Lines 139-140, and the next iteration starts.
Sleep ==
    /\ pc = "sleep"
    /\ is_first_run' = FirstRunAfter(is_first_run, raised)
    /\ now' = now + Ticks(SLEEP_TIME)
    /\ cycles' = cycles + 1
    /\ prev_returned' = returned
    /\ prev_sent' = sent
    /\ prev_skymaps' = skymaps
    /\ prev_raised' = raised
    /\ prev_refresh_time' = refresh_time
    /\ last_payload' = IF get_objects_payload # <<>> THEN get_objects_payload
                                                    ELSE last_payload
    /\ probe' = Pending
    /\ calls' = {}
    /\ gcn_events' = <<>>
    /\ new_gcn_events' = <<>>
    /\ get_objects_payload' = <<>>
    /\ refresh_time' = None
    /\ returned' = <<>>
    /\ objs' = <<>>
    /\ idx' = 0
    /\ sent' = <<>>
    /\ raised' = "none"
    /\ pc' = "ping"
    /\ UNCHANGED <<boot, skymaps, latest_obj_refresh, helperVars>>

Next ==
    \/ PingReturns
    \/ PingTimesOut
    \/ FetchFails
    \/ UpsertRaises
    \/ UpsertNothingNew
    \/ Evict
    \/ QuerySkipped
    \/ QueryFails
    \/ QueryMalformed
    \/ Query
    \/ CrossmatchNoMatch
    \/ CrossmatchNotify
    \/ CrossmatchDone
    \/ Sleep

\* The loop from the state after construction.
Spec == Init /\ [][Next]_vars

\* The loop body from the top of any iteration.
SpecLoop == LoopInit /\ [][Next]_vars

\* time.sleep(SLEEP_TIME) returns: the sleep of line 140 is always followed
\* by the next iteration.
SpecLoopFair == SpecLoop /\ WF_vars(Sleep)

(***************************************************************************)
(* The start of crossmatch_alert_to_skymaps, lines 35-45: the construction *)
(* of the SkyPortal client, which validates the backend and the token, and *)
(* setup_telescope_list.  No handler is around them: an exception they     *)
(* raise ends the process (pc = "exit").                                   *)
(***************************************************************************)
\* What ping() and auth() may meet: a 200 answer, another status, a timeout,
\* no connection.  What get_instruments() may meet: an empty list, a list of
\* one instrument, a timeout.
BootAnswers ==
    [ping : {"true", "false", "timeout", "unreachable"},
     auth : {"true", "false", "timeout", "unreachable"},
     instruments : {"0", "1", "timeout"}]

\* handle_timeout: requests.exceptions.Timeout becomes APIError, any other
\* exception of the request goes through as it is.
RaisedByAnswer(answer) ==
    IF answer = "timeout" THEN "APIError"
    ELSE IF answer = "unreachable" THEN "ConnectionError"
    ELSE "none"

\* Mutant of Validate: the value of ping() is not read, as at line 50 of the
\* loop.
Validate_pingIgnored(ping, auth) ==
    IF RaisedByAnswer(ping) # "none" THEN RaisedByAnswer(ping)
    ELSE IF RaisedByAnswer(auth) # "none" THEN RaisedByAnswer(auth)
    ELSE IF auth = "false" THEN "ValueError"
    ELSE "none"

\* SkyPortal.__init__ with validate=True, api.py:72-77: the exception it
\* raises, "none" when it returns.
Validate(ping, auth) ==
    IF RaisedByAnswer(ping) # "none" THEN RaisedByAnswer(ping)
    ELSE IF ping = "false" THEN "ValueError"
    ELSE IF RaisedByAnswer(auth) # "none" THEN RaisedByAnswer(auth)
    ELSE IF auth = "false" THEN "ValueError"
    ELSE "none"

\* setup_telescope_list, gcn_notices.py:5-13: the exception it raises.
SetupRaises(instruments) ==
    IF RaisedByAnswer(instruments) # "none" THEN RaisedByAnswer(instruments)
    ELSE IF instruments = "0" THEN "ValueError"
    ELSE "none"

\* The state in which crossmatch_alert_to_skymaps is entered.
StartupInit ==
    /\ pc = "construct"
    /\ now = DayStart(101)
    /\ boot \in BootAnswers
    /\ skymaps = EmptyMap
    /\ latest_obj_refresh = None
    /\ is_first_run = TRUE
    /\ IterationStart
    /\ NoHistory
    /\ prev_skymaps = EmptyMap
    /\ HelperIdle

\* Line 35.
Construct ==
    /\ pc = "construct"
    /\ IF Validate(boot.ping, boot.auth) = "none"
       THEN pc' = "setup" /\ UNCHANGED raised
       ELSE pc' = "exit" /\ raised' = Validate(boot.ping, boot.auth)
    /\ UNCHANGED <<now, boot, skymaps, latest_obj_refresh, is_first_run, probe,
                   calls, gcn_events, new_gcn_events, get_objects_payload,
                   refresh_time, returned, objs, idx, sent, historyVars,
                   helperVars>>

\* Lines 36-45.
SetupTelescopeList ==
    /\ pc = "setup"
    /\ IF SetupRaises(boot.instruments) = "none"
       THEN /\ pc' = "ping"
            /\ latest_obj_refresh' = fallback(now, ALERT, 0)
            /\ UNCHANGED raised
       ELSE /\ pc' = "exit"
            /\ raised' = SetupRaises(boot.instruments)
            /\ UNCHANGED latest_obj_refresh
    /\ UNCHANGED <<now, boot, skymaps, is_first_run, probe, calls, gcn_events,
                   new_gcn_events, get_objects_payload, refresh_time, returned,
                   objs, idx, sent, historyVars, helperVars>>

\* The program from its start.  The cache is empty at line 40 and no step
\* stores a region (UpsertRaises), so the steps of Next that need a region,
\* the object query and the crossmatch, cannot occur and are left out.
StartupNext ==
    \/ Construct
    \/ SetupTelescopeList
    \/ PingReturns
    \/ PingTimesOut
    \/ FetchFails
    \/ UpsertRaises
    \/ UpsertNothingNew
    \/ Evict
    \/ QuerySkipped
    \/ Sleep

SpecStartup == StartupInit /\ [][StartupNext]_vars

ValidationFails == boot.ping # "true" \/ boot.auth # "true"

NoPolling == cycles = 0 /\ probe = Pending /\ calls = {}

\* C13 as stated: when the validation at startup fails (the backend does
\* not answer or is not available, or the token is rejected) the process
\* ends before any iteration of the loop, and the process ends in no other
\* case.
C13_ExitOnlyOnValidationFailure ==
    /\ ValidationFails => (pc \in {"construct", "exit"} /\ NoPolling)
    /\ pc = "exit" => ValidationFails

\* C13 as amended: when the validation at startup fails the process ends
\* before any iteration of the loop; the process also ends, before any
\* iteration too, when setup_telescope_list gets no instrument or its request
\* fails; and the process ends in no other case.
C13_ExitOnlyAtStartup ==
    /\ ValidationFails => (pc \in {"construct", "exit"} /\ NoPolling)
    /\ SetupRaises(boot.instruments) # "none" =>
          (pc \in {"construct", "setup", "exit"} /\ NoPolling)
    /\ pc = "exit" =>
          /\ ValidationFails \/ SetupRaises(boot.instruments) # "none"
          /\ NoPolling
          /\ raised # "none"

\* The backend answered the probe and rejected the token: the process ended.
C13_Witness ==
    /\ pc = "exit"
    /\ boot.ping = "true"
    /\ boot.auth = "false"
    /\ raised = "ValueError"
    /\ NoPolling

(***************************************************************************)
(* Claims about the loop, checked under SpecLoop.                          *)
(***************************************************************************)
InBatch(batch, obj) == \E i \in 1..Len(batch) : batch[i] = obj
Notifications(log, id) == Cardinality({i \in 1..Len(log) : log[i].id = id})

\* The instance of the specification: O at (10, 20) with detections at mjd
\* 100 (snr 8) and 101 (snr 9); R covers (10, 20), its dateobs at mjd 100.
InstanceO ==
    [id |-> "O", ra |-> 10, dec |-> 20,
     photometry |-> <<[mjd |-> Mjd(100), snr |-> 8], [mjd |-> Mjd(101), snr |-> 9]>>]
InstanceR == <<DayStart(100), AliasOf("A"), MocOf("A")>>

Caches_R(cache) == "A" \in DOMAIN cache /\ cache["A"] = InstanceR

\* C1: when two consecutive polls both return O, with R cached in both,
\* exactly one notification for O is dispatched in the two polls together.
C1_OneNotificationInTwoPolls ==
    (/\ pc = "sleep"
     /\ cycles >= 1
     /\ InBatch(prev_returned, InstanceO)
     /\ InBatch(returned, InstanceO)
     /\ Caches_R(prev_skymaps)
     /\ Caches_R(skymaps))
    => Notifications(prev_sent, "O") + Notifications(sent, "O") = 1

\* The events of this iteration that carry a tagged localization.
TaggedEvents ==
    {i \in 1..Len(gcn_events) : TaggedLocalization(gcn_events[i].localizations) # <<>>}
TaggedDateobs(i) == TaggedLocalization(gcn_events[i].localizations)[1].dateobs

\* C9: the cache holds one entry per event id; a step of the loop never
\* lowers the dateobs stored for an id it keeps; an entry changes only when
\* an event of that id came with a tagged localization of a strictly newer
\* dateobs; and when every tagged event that came is cached with a dateobs
\* at least as recent, the upsert is a no-op: nothing is selected, nothing
\* is fetched and the snapshot is the one before.
C9_MonotonicUpsert ==
    [][/\ \A id \in DOMAIN skymaps \cap DOMAIN skymaps' :
             /\ skymaps'[id][1] >= skymaps[id][1]
             /\ skymaps'[id] # skymaps[id] =>
                   \E i \in 1..Len(gcn_events') :
                       /\ gcn_events'[i].id = id
                       /\ TaggedLocalization(gcn_events'[i].localizations) # <<>>
                       /\ TaggedLocalization(gcn_events'[i].localizations)[1].dateobs
                             > skymaps[id][1]
       /\ (/\ pc = "upsert"
           /\ gcn_events' # <<>>
           /\ \A i \in 1..Len(gcn_events') :
                 LET localization == TaggedLocalization(gcn_events'[i].localizations)
                 IN  localization # <<>> =>
                        /\ gcn_events'[i].id \in DOMAIN skymaps
                        /\ localization[1].dateobs <= skymaps[gcn_events'[i].id][1])
          => (skymaps' = skymaps /\ new_gcn_events' = <<>> /\ pc' = "evict")
      ]_vars

\* An older tagged localization came for a cached event and the cache is the
\* one the iteration started with.
C9_Witness ==
    /\ pc = "evict"
    /\ new_gcn_events = <<>>
    /\ skymaps = prev_skymaps
    /\ \E i \in TaggedEvents :
          /\ gcn_events[i].id \in DOMAIN skymaps
          /\ TaggedDateobs(i) < skymaps[gcn_events[i].id][1]

\* C10: at the end of an iteration that fetched the events, every event that
\* came with a tagged localization and was not cached is cached under its id
\* with the dateobs, alias and region of that localization, and an iteration
\* in which no event came with a tagged localization leaves the cache as it
\* was after its eviction step.
C10_QualifyingEventInserted ==
    (pc = "sleep" /\ gcn_events # <<>>) =>
        \A i \in TaggedEvents :
            gcn_events[i].id \notin DOMAIN prev_skymaps =>
                /\ gcn_events[i].id \in DOMAIN skymaps
                /\ skymaps[gcn_events[i].id] =
                      <<TaggedDateobs(i), AliasOf(gcn_events[i].id),
                        MocOf(gcn_events[i].id)>>

\* The instant GCN hours before the clock value t.
GcnFloor(t) == t - Ticks(GCN * SecondsPerHour)

\* C11: a run of the eviction at clock value now removes exactly the entries
\* whose dateobs is older than now minus the GCN lookback: each of them is
\* absent afterwards, every other entry is still there with the same
\* dateobs, alias and region, and no entry is added.
C11_EvictRemovesExactlyExpired ==
    [][(pc = "evict" /\ "evict" \in calls') =>
          /\ \A id \in DOMAIN skymaps :
                IF skymaps[id][1] < GcnFloor(now)
                THEN id \notin DOMAIN skymaps'
                ELSE id \in DOMAIN skymaps' /\ skymaps'[id] = skymaps[id]
          /\ DOMAIN skymaps' \subseteq DOMAIN skymaps
      ]_vars

\* The eviction has removed A, older than the floor, and kept B.
C11_Witness ==
    /\ pc = "query"
    /\ "evict" \in calls
    /\ DOMAIN prev_skymaps = {"A", "B"}
    /\ prev_skymaps["A"][1] < GcnFloor(now)
    /\ DOMAIN skymaps = {"B"}
    /\ skymaps["B"] = prev_skymaps["B"]

\* C12: an exception raised inside an iteration never ends the process: the
\* iteration goes to the sleep of line 140, the sleep takes SLEEP_TIME, and
\* the next iteration starts at its probe.
C12_ErrorsContained ==
    /\ [](pc # "exit")
    /\ [][(raised = "none" /\ raised' # "none") => pc' = "sleep"]_vars
    /\ [][pc = "sleep" =>
            (pc' = "ping" /\ now' = now + Ticks(SLEEP_TIME) /\ raised' = "none")]_vars
    /\ (raised # "none") ~> (pc = "ping" /\ raised = "none")

\* An iteration follows one that a notification failure ended.
C12_Witness ==
    /\ pc = "upsert"
    /\ cycles >= 1
    /\ prev_raised = "TypeError"
    /\ prev_sent # <<>>

\* C15: when the probe of an iteration fails, by a timeout or by answering
\* that the backend is not available, nothing else runs in that iteration:
\* no event fetch, no upsert, no eviction, no object query, no notification.
C15_FailedProbeSkipsCycle ==
    probe \in {"false", "timeout"} =>
        /\ pc \in {"sleep", "ping"}
        /\ calls = {}
        /\ sent = <<>>
        /\ skymaps = prev_skymaps

\* C16: in an iteration that found a new or newer tagged localization the
\* eviction does not run and no entry leaves the cache; in an iteration that
\* found none the eviction has run on a non-empty cache before the object
\* query, and no entry older than the GCN floor is left when the query
\* starts.
C16_EvictOnlyWithoutUpdate ==
    /\ new_gcn_events # <<>> =>
          /\ "evict" \notin calls
          /\ \A id \in DOMAIN prev_skymaps : id \in DOMAIN skymaps
    /\ (pc = "query" /\ new_gcn_events = <<>>) =>
          /\ \A id \in DOMAIN skymaps : skymaps[id][1] >= GcnFloor(now)
          /\ (DOMAIN prev_skymaps # {} => "evict" \in calls)

\* No event was new, the eviction removed an entry and the query comes next.
C16_Witness ==
    /\ pc = "query"
    /\ new_gcn_events = <<>>
    /\ "evict" \in calls
    /\ "get_gcn_events" \in calls
    /\ Cardinality(DOMAIN skymaps) < Cardinality(DOMAIN prev_skymaps)

\* The instant ALERT hours before the clock value t.
AlertFloor(t) == t - Ticks(ALERT * SecondsPerHour)

\* C17: the step that issues the object query is taken with a non-empty
\* cache, after the upsert and evict steps, and the startDate it sends is the
\* later of the cursor and of now minus the ALERT lookback: never older than
\* either.
C17_QueryWindow ==
    [][("get_objects" \in calls' /\ "get_objects" \notin calls) =>
          /\ pc = "query"
          /\ DOMAIN skymaps # {}
          /\ get_objects_payload'.startDate >= latest_obj_refresh
          /\ get_objects_payload'.startDate >= AlertFloor(now)
          /\ get_objects_payload'.startDate \in {latest_obj_refresh, AlertFloor(now)}
      ]_vars

\* A query went out whose startDate is the lookback floor, the cursor being
\* older.
C17_Witness ==
    /\ "get_objects" \in calls
    /\ raised = "APIError"
    /\ get_objects_payload # <<>>
    /\ get_objects_payload.startDate = AlertFloor(refresh_time)
    /\ get_objects_payload.startDate > latest_obj_refresh

\* C18: the cursor changes only in the step in which the object query and
\* its photometry fetches return without an exception, and it then takes the
\* clock value read before the query; a query that raises leaves it as it
\* was.  Hence the startDate of an iteration's query is not later than the
\* instant at which the query of the iteration before started: an object
\* created while that query ran is inside the new window.
C18_CursorIsPreQueryTime ==
    /\ [][/\ latest_obj_refresh' # latest_obj_refresh =>
                (pc = "query" /\ pc' = "crossmatch" /\ raised' = "none")
          /\ (pc = "query" /\ pc' = "crossmatch") =>
                (latest_obj_refresh' = now /\ latest_obj_refresh' = refresh_time')
          /\ (pc = "query" /\ raised' # "none") =>
                latest_obj_refresh' = latest_obj_refresh
         ]_vars
    /\ []((get_objects_payload # <<>> /\ prev_refresh_time # None) =>
             get_objects_payload.startDate <= prev_refresh_time)

\* A query that took time has returned, after the query of the iteration
\* before.
C18_Witness ==
    /\ pc = "crossmatch"
    /\ latest_obj_refresh = refresh_time
    /\ now > refresh_time
    /\ prev_refresh_time # None
    /\ get_objects_payload.startDate = prev_refresh_time

\* The object whose photometry response is malformed.
InstanceM ==
    [id |-> "M", ra |-> 30, dec |-> 40, photometry |-> <<[mjd |-> Mjd(101)]>>]

\* The objects of a batch, other than M, that the filter accepts at clock
\* value t and that a region of the cache contains.
MatchingOthers(batch, t) ==
    {i \in 1..Len(batch) :
        /\ batch[i].id # "M"
        /\ LET accepted == get_and_process_valid_obj(<<batch[i]>>, snr_threshold,
                                fallback_mjd(t, FIRST_DETECTION, 0))
           IN  /\ accepted # <<>>
               /\ is_obj_in_skymaps(batch[i].ra, batch[i].dec, Values(skymaps)) # <<>>}

\* C19 as stated: when one object of the batch has a malformed photometry
\* response, the other objects of the batch are still filtered and
\* crossmatched in that iteration and a matched one is notified.  Stated for
\* the first run, in which every region of the cache is new for every
\* object, and for one notification at least: C20 is about the ones after a
\* failed delivery.
C19_MalformedItemSkipsOnlyItem ==
    (/\ pc = "sleep"
     /\ is_first_run
     /\ InBatch(returned, InstanceM)
     /\ MatchingOthers(returned, refresh_time) # {})
    => sent # <<>>

\* C19 as amended: a malformed photometry response for one object of the
\* batch ends get_and_process_valid_obj with its exception: no object of the
\* batch is filtered into objs, crossmatched or notified in that iteration,
\* the iteration goes to its sleep and the cursor stays where it was.
C19_MalformedItemSkipsBatch ==
    [][(pc = "query" /\ InBatch(returned', InstanceM)) =>
          /\ raised' = "KeyError"
          /\ pc' = "sleep"
          /\ objs' = <<>>
          /\ sent' = <<>>
          /\ "send_to_gcn" \notin calls'
          /\ latest_obj_refresh' = latest_obj_refresh
      ]_vars

\* The batch held M and O, R covers O, and nothing was notified.
C19_Witness ==
    /\ pc = "sleep"
    /\ raised = "KeyError"
    /\ InBatch(returned, InstanceM)
    /\ InBatch(returned, InstanceO)
    /\ Caches_R(skymaps)
    /\ is_first_run
    /\ sent = <<>>
    /\ latest_obj_refresh < refresh_time

\* C20: when send_to_gcn fails for one object the cursor keeps the value of
\* that iteration's query, and every accepted object of the iteration that
\* some new region contains is still notified.
C20_DeliveryFailureDoesNotBlock ==
    (pc = "sleep" /\ raised = "TypeError") =>
        /\ latest_obj_refresh = refresh_time
        /\ \A i \in 1..Len(objs) :
              MatchingSkymaps(objs[i], skymaps, now, is_first_run) # <<>> =>
                  Notifications(sent, objs[i].id) >= 1

\* C21: at the end of an iteration, every accepted object has one
\* notification when some candidate region of its DedupWindow set contains
\* it and none otherwise, and every notification is for an accepted object
\* and lists exactly the candidate regions of the cache that contain it.
C21_NotifiedIffContained ==
    pc = "sleep" =>
        /\ \A i \in 1..Len(objs) :
              Notifications(sent, objs[i].id) =
                  IF MatchingSkymaps(objs[i], skymaps, now, is_first_run) # <<>>
                  THEN 1 ELSE 0
        /\ \A k \in 1..Len(sent) :
              \E i \in 1..Len(objs) :
                  /\ objs[i].id = sent[k].id
                  /\ sent[k].matching_skymaps =
                        MatchingSkymaps(objs[i], skymaps, now, is_first_run)
                  /\ \A j \in 1..Len(sent[k].matching_skymaps) :
                        \E id \in DOMAIN skymaps :
                            skymaps[id] = sent[k].matching_skymaps[j]

\* A point that has a signal-to-noise ratio, null and zero excluded, and the
\* filtered set of the object the filter returned.
HasSnr(phot) == phot.snr # None /\ phot.snr # 0
FilteredSet == result[1].filtered_photometry

\* The index of the oldest point of the photometry that has a ratio, one
\* past the end of the list when no point has one.
FirstWithSnr ==
    LET with == {i \in 1..Len(call.photometry) : HasSnr(call.photometry[i])}
    IN  IF with = {} THEN Len(call.photometry) + 1
        ELSE CHOOSE i \in with : \A j \in with : i <= j

\* C22 as stated: the filtered set of a returned object holds at most one
\* non-detection, which is its first point and the point right before the
\* oldest point with a ratio; every other point has snr >= tau; and the
\* points are in chronological order.
C22_DetectionsReachThreshold ==
    FilterAccepted =>
        /\ \A k \in 1..Len(FilteredSet) :
              \/ FilteredSet[k].snr >= call.snr_threshold
              \/ /\ k = 1
                 /\ ~HasSnr(FilteredSet[1])
                 /\ FirstWithSnr > 1
                 /\ FilteredSet[1] = call.photometry[FirstWithSnr - 1]
        /\ Chronological(FilteredSet)

\* C22 as amended: the filtered set of a returned object is the point right
\* before the oldest point with a ratio, when there is one, followed by
\* every point of the photometry that has a ratio, whatever the ratio, in
\* the order of the photometry; none of them is at the threshold and older
\* than the lookback floor.
C22_DetectionsHaveSnr ==
    FilterAccepted =>
        /\ FilteredSet =
              (IF FirstWithSnr > 1 THEN <<call.photometry[FirstWithSnr - 1]>>
                                   ELSE <<>>)
              \o SelectSeq(call.photometry, HasSnr)
        /\ Chronological(FilteredSet)
        /\ \A k \in 1..Len(FilteredSet) :
              ~(/\ FilteredSet[k].snr >= call.snr_threshold
                /\ FilteredSet[k].mjd < call.first_detection_fallback)

\* A returned object whose set is a non-detection, then a detection under
\* the threshold, then a later one at the threshold.
C22_Witness ==
    /\ FilterAccepted
    /\ Len(FilteredSet) = 3
    /\ ~HasSnr(FilteredSet[1])
    /\ HasSnr(FilteredSet[2])
    /\ FilteredSet[2].snr < call.snr_threshold
    /\ FilteredSet[3].snr >= call.snr_threshold
    /\ FilteredSet[2].mjd < FilteredSet[3].mjd

\* C23: an iteration that raises nothing leaves no expired event in the
\* cache: from its eviction on, through the crossmatch and up to its sleep,
\* the cache holds no event whose dateobs is before the floor, now - GCN,
\* that the iteration read at line 77.  So an expired event is gone by the
\* end of the first iteration that completes without error.
C23_ExpiredEvictedByCleanCycle ==
    (pc \in {"crossmatch", "sleep"} /\ raised = "none") =>
        \A id \in DOMAIN skymaps :
            /\ refresh_time # None
            /\ skymaps[id][1] >= GcnFloor(refresh_time)

\* Event A was kept by the iteration before, its dateobs at that
\* iteration's floor, and this iteration, which raised nothing, evicted it.
C23_Witness ==
    /\ pc = "sleep"
    /\ raised = "none"
    /\ cycles = 1
    /\ prev_raised = "none"
    /\ prev_refresh_time # None
    /\ "A" \in DOMAIN prev_skymaps
    /\ prev_skymaps["A"][1] = GcnFloor(prev_refresh_time)
    /\ "A" \notin DOMAIN skymaps
    /\ "evict" \in calls

\* C24: the first-run flag changes only at the end of an iteration, where it
\* is cleared whatever the iteration raised; once clear it stays clear; so it
\* is clear in every iteration after the one the loop started with, and the
\* shortcut of get_new_skymaps_for_processed_obj, which tests it, is taken
\* in that one iteration at most.
C24_FirstRunOnlyOnce ==
    /\ [](cycles >= 1 => ~is_first_run)
    /\ [][/\ pc = "sleep" => ~is_first_run'
          /\ pc # "sleep" => is_first_run' = is_first_run
          /\ ~is_first_run => ~is_first_run'
         ]_vars

\* The first iteration notified O of region A, older than O's last processed
\* alert and so a candidate by the first-run shortcut only; send_to_gcn
\* raised; the flag is clear at the top of the second iteration.
C24_Witness ==
    /\ pc = "ping"
    /\ cycles = 1
    /\ ~is_first_run
    /\ prev_raised = "TypeError"
    /\ InBatch(prev_returned, InstanceO)
    /\ Notifications(prev_sent, "O") = 1
    /\ "A" \in DOMAIN prev_skymaps
    /\ prev_skymaps["A"][1] = DayStart(99)

\* C25: no step of the loop lowers the cursor, and the startDate of a query
\* is not before the startDate of the last query made before it.
C25_CursorNeverDecreases ==
    /\ [][latest_obj_refresh' >= latest_obj_refresh]_vars
    /\ []((get_objects_payload # <<>> /\ last_payload # <<>>) =>
             get_objects_payload.startDate >= last_payload.startDate)

\* Two iterations queried, the second from the cursor the first one left,
\* which is later than the startDate of the first.
C25_Witness ==
    /\ pc = "crossmatch"
    /\ cycles >= 1
    /\ last_payload # <<>>
    /\ get_objects_payload # <<>>
    /\ get_objects_payload.startDate > last_payload.startDate
    /\ get_objects_payload.startDate = prev_refresh_time
    /\ latest_obj_refresh > prev_refresh_time

====
